---------------------------- MODULE Spec2Model ----------------------------
(***************************************************************************)
(* A model of lib/Sema/TypeChecker.cpp: the extension binder               *)
(* (bindExtensionDecl), the worklist scheduler                             *)
(* (typeCheckFunctionsAndExternalDecls) and the driver                     *)
(* (swift::performTypeChecking).                                           *)
(*                                                                         *)
(* Collaborators that live outside this file (validateType, typeCheckDecl, *)
(* typeCheckAbstractFunctionBody, handleExternalDecl's synthesis helpers,  *)
(* computeCaptures) are modelled by their observable effect on the state   *)
(* this file owns: a nondeterministic outcome and a bounded number of      *)
(* items appended to the work lists.                                       *)
(***************************************************************************)
EXTENDS Integers, Sequences, FiniteSets, TLC

(***************************************************************************)
(* Bounds of the model.                                                    *)
(***************************************************************************)
\* largest number of generic parameters of a type or of a component
MaxParams == 2
\* largest number of name components of an extension's dotted path
MaxComponents == 2
\* number of bindExtensionDecl calls followed on one extension
MaxCalls == 2
\* total number of items the collaborators append to the work lists
MaxNew == 2
\* largest number of items one collaborator call appends
MaxPerCall == 2
\* largest number of checks that fail in one run
MaxFailures == 1
\* largest number of getLiteralProtocol calls followed
MaxLookups == 2
\* longest override chain of a declaration, the declaration included
MaxChain == 3
\* largest number of written inheritance entries of a declaration
MaxInherited == 2

VARIABLES
  \* ---- SourceFile ----
  Decls,       \* SF.Decls: the kind of each top-level declaration
  ExtOf,       \* per top-level declaration: its ExtensionDecl fields
  ASTStage,    \* SF.ASTStage
  StartElem,   \* the StartElem argument of performTypeChecking
  declState,   \* validation state per declaration: the top-level ones
               \* (1..Len(Decls)), then the ones discovered while checking
  \* ---- ASTContext ----
  ExternalDefinitions,            \* the kind of each external definition
  LastCheckedExternalDefinition,
  Extensions,  \* NominalTypeDecl -> the sequence addExtension built
  Diags,       \* diagnostics emitted through TC.diagnose, in order
  \* ---- TypeChecker ----
  definedFunctions,
  implicitlyDefinedFunctions,
  ValidatedTypes,
  \* ---- locals of performTypeChecking and of the scheduler ----
  pc,          \* the statement about to run
  caller,      \* the entry point that called the scheduler
  idx,         \* 1-based position of the driver's loops in SF.Decls
  hasTopLevelCode,
  currentFunctionIdx,
  currentExternalDef,
  previousFunctionIdx,
  loopN,       \* the bound `n' of the running for loop
  loopI,       \* the index `i' of the capture loop
  \* ---- observation ----
  lastBind,    \* what the last bindExtensionDecl call did
  numCalls,    \* number of bindExtensionDecl calls made
  lastGate,    \* the last declaration of the extension loop: the gate's
               \* input and result, and whether validateDecl was called
  nameBound,   \* performNameBinding has run in this call
  firstPassed, \* declarations checked with isFirstPass = true
  secondPassed, \* declarations checked in the second pass
  WholeModComp, \* TryAddFinal::WholeModComp
  sealLast,    \* the last walkToDeclPre call: declaration and outcome
  litRegistry, \* ASTContext's known protocols, by KnownProtocolKind
  litLast,     \* the last getLiteralProtocol call: expression and result
  litDiags,    \* diagnostics emitted by getProtocol, in order
  numLookups,  \* number of getLiteralProtocol calls made
  bodyLog,     \* definedFunctions indices, in order of body check
  captureLog,  \* definedFunctions indices, in order of computeCaptures
  extLog       \* ExternalDefinitions indices processed, with the treatment
               \* and the entry point whose run processed them

fileVars == <<Decls, ExtOf, ASTStage, StartElem, declState>>
ctxVars == <<ExternalDefinitions, LastCheckedExternalDefinition>>
bindVars == <<Extensions, Diags, lastBind, numCalls>>
tcVars == <<definedFunctions, implicitlyDefinedFunctions, ValidatedTypes>>
localVars == <<pc, caller, idx, hasTopLevelCode, currentFunctionIdx,
               currentExternalDef, previousFunctionIdx, loopN, loopI>>
logVars == <<bodyLog, captureLog, extLog>>
litVars == <<litRegistry, litLast, litDiags, numLookups>>
sealVars == <<WholeModComp, sealLast>>
driverLog == <<lastGate, nameBound, firstPassed, secondPassed>>
helperVars == <<litVars, sealVars, driverLog>>

vars == <<fileVars, ctxVars, bindVars, tcVars, localVars, logVars,
          helperVars>>

\* Sequences over S of length lo..hi
SeqsOf(S, lo, hi) == UNION {[1..k -> S] : k \in lo..hi}

(***************************************************************************)
(* TypeChecker::getProtocol and TypeChecker::getLiteralProtocol.           *)
(***************************************************************************)

\* The KnownProtocolKind values getLiteralProtocol asks for
KnownProtocolKind ==
  {"ArrayLiteralConvertible", "DictionaryLiteralConvertible",
   "NilLiteralConvertible", "IntegerLiteralConvertible",
   "FloatLiteralConvertible", "BooleanLiteralConvertible",
   "CharacterLiteralConvertible",
   "ExtendedGraphemeClusterLiteralConvertible",
   "StringLiteralConvertible", "StringInterpolationConvertible"}

\* `return nullptr'
NoProtocol == "nullptr"

\* The subclasses of LiteralExpr
LiteralExprClasses ==
  {"NilLiteralExpr", "IntegerLiteralExpr", "FloatLiteralExpr",
   "BooleanLiteralExpr", "CharacterLiteralExpr", "StringLiteralExpr",
   "InterpolatedStringLiteralExpr", "MagicIdentifierLiteralExpr"}

\* The classes of Expr told apart, with two that are not literals
ExprClasses ==
  LiteralExprClasses \cup {"ArrayExpr", "DictionaryExpr", "CallExpr",
                           "DeclRefExpr"}

\* MagicIdentifierLiteralExpr::Kind
MagicKinds == {"File", "Function", "Line", "Column"}

\* An expression: its class, isSingleExtendedGraphemeCluster() of a
\* StringLiteralExpr, getKind() of a MagicIdentifierLiteralExpr and
\* whether getLoc() is a valid location
Exprs ==
  {e \in [class : ExprClasses, single : BOOLEAN, magic : MagicKinds,
          locValid : BOOLEAN] :
     /\ e.class # "StringLiteralExpr" => ~e.single
     /\ e.class # "MagicIdentifierLiteralExpr" => e.magic = "File"}

\* What Context.getProtocol(kind) finds: no declaration, a declaration
\* that has a type, one that has none yet, and one whose validation
\* failed, with or without a type
ProtocolStates ==
  {"absent", "typed", "untyped", "invalid_typed", "invalid_untyped"}

\* !protocol->hasType()
hasNoType(state) == state \in {"untyped", "invalid_untyped"}

\* protocol->isInvalid()
isInvalid(state) == state \in {"invalid_typed", "invalid_untyped"}

\* The registries looked into: all protocols declared and typed but one
Registries ==
  {[k \in KnownProtocolKind |-> IF k = odd THEN st ELSE "typed"] :
     odd \in KnownProtocolKind, st \in {"absent", "typed", "untyped"}}

\* `if (!protocol && loc.isValid())'
missingDiagnosed_anyLoc(state, locValid) == state = "absent"
missingDiagnosed(state, locValid) == state = "absent" /\ locValid

\* validateDecl(protocol) on a protocol without a type: it may fail, and a
\* failed validation may or may not leave a type on the declaration
validateProtocol(state, validates, typed) ==
  IF validates /\ ~isInvalid(state) THEN "typed"
  ELSE IF typed THEN "invalid_typed"
  ELSE "invalid_untyped"

\* getProtocol(loc, kind), where validates and typed are what validateDecl
\* does to the protocol
getProtocol(registry, locValid, kind, validates, typed) ==
  LET state == registry[kind]
      diags == IF missingDiagnosed(state, locValid)
               THEN <<[kind |-> "missing_protocol", name |-> kind]>>
               ELSE <<>>
      after == IF state # "absent" /\ hasNoType(state)
               THEN validateProtocol(state, validates, typed)
               ELSE state
  IN
  [protocol |-> IF state = "absent" THEN NoProtocol
                ELSE IF hasNoType(state) /\ isInvalid(after)
                THEN NoProtocol
                ELSE kind,
   diags |-> diags,
   registry |-> [registry EXCEPT ![kind] = after],
   asked |-> kind]

\* The switch on E->getKind() of lines 132-142
magicProtocol_lineAsString(magic) == "StringLiteralConvertible"
magicProtocol(magic) ==
  IF magic \in {"File", "Function"} THEN "StringLiteralConvertible"
  ELSE "IntegerLiteralConvertible"

\* The KnownProtocolKind getLiteralProtocol asks getProtocol for, in the
\* order of its tests; NoProtocol where it returns nullptr itself
requiredKind(expr) ==
  IF expr.class = "ArrayExpr" THEN "ArrayLiteralConvertible"
  ELSE IF expr.class = "DictionaryExpr" THEN "DictionaryLiteralConvertible"
  ELSE IF expr.class \notin LiteralExprClasses THEN NoProtocol
  ELSE IF expr.class = "NilLiteralExpr" THEN "NilLiteralConvertible"
  ELSE IF expr.class = "IntegerLiteralExpr" THEN "IntegerLiteralConvertible"
  ELSE IF expr.class = "FloatLiteralExpr" THEN "FloatLiteralConvertible"
  ELSE IF expr.class = "BooleanLiteralExpr" THEN "BooleanLiteralConvertible"
  ELSE IF expr.class = "CharacterLiteralExpr"
       THEN "CharacterLiteralConvertible"
  ELSE IF expr.class = "StringLiteralExpr" THEN
    IF expr.single THEN "ExtendedGraphemeClusterLiteralConvertible"
    ELSE "StringLiteralConvertible"
  ELSE IF expr.class = "InterpolatedStringLiteralExpr"
       THEN "StringInterpolationConvertible"
  ELSE IF expr.class = "MagicIdentifierLiteralExpr"
       THEN magicProtocol(expr.magic)
  ELSE NoProtocol

\* getLiteralProtocol(expr)
getLiteralProtocol(registry, expr, validates, typed) ==
  IF requiredKind(expr) = NoProtocol
  THEN [protocol |-> NoProtocol, diags |-> <<>>, registry |-> registry,
        asked |-> NoProtocol]
  ELSE getProtocol(registry, expr.locValid, requiredKind(expr), validates,
                   typed)

\* No getLiteralProtocol call made yet
NoLookup ==
  [expr |-> [class |-> "CallExpr", single |-> FALSE, magic |-> "File",
             locValid |-> FALSE],
   protocol |-> NoProtocol, emitted |-> <<>>, asked |-> NoProtocol,
   before |-> [k \in KnownProtocolKind |-> "typed"]]

\* The resolver not in use
IdleLiteral ==
  /\ litRegistry = [k \in KnownProtocolKind |-> "typed"]
  /\ litLast = NoLookup
  /\ litDiags = <<>>
  /\ numLookups = 0

(***************************************************************************)
(* TryAddFinal, the walker of performWholeModuleChecks.                    *)
(***************************************************************************)

\* The classes of Decl walkToDeclPre tells apart; Getter and Setter are
\* FuncDecls with isAccessor(), NonValue is any Decl that is no ValueDecl
SealKinds ==
  {"Storage", "Func", "Getter", "Setter", "Constructor", "Destructor",
   "Class", "NonValue"}

\* func->isAccessor()
isAccessor(kind) == kind \in {"Getter", "Setter"}

\* enum class Accessibility
Accessibilities == {"Private", "Internal", "Public"}

\* getAttrs().getAttribute<DynamicAttr>(): none, one with isImplicit(),
\* one written in the source
DynamicMarks == {"none", "implicit", "explicit"}

\* The markers along an override chain: the declaration's own first, then
\* that of getOverriddenDecl(), and so on up to a declaration that
\* overrides nothing
OverrideChains == SeqsOf(DynamicMarks, 1, MaxChain)

\* The chains of an accessor's storage declaration
StorageChains == SeqsOf(DynamicMarks, 1, MaxChain - 1)

\* A declaration as the walker reads it.  storageFinal and storageChain
\* are getAccessorStorageDecl()'s isFinal() and override chain; they are
\* read for accessors only.
SealDecls ==
  {d \in [kind : SealKinds, access : Accessibilities, isFinal : BOOLEAN,
          isInvalid : BOOLEAN, hasAccessibility : BOOLEAN,
          chain : OverrideChains, isOverridden : BOOLEAN,
          inClass : BOOLEAN, storageFinal : BOOLEAN,
          storageChain : StorageChains] :
     ~isAccessor(d.kind) =>
        /\ ~d.storageFinal
        /\ d.storageChain = <<"none">>}

\* isInferredDynamic along a chain of markers from position i on: a
\* missing declaration and a declaration without the attribute answer
\* true, an implicit attribute asks the overridden declaration
RECURSIVE inferredFrom(_, _)
inferredFrom(chain, i) ==
  IF i > Len(chain) THEN TRUE
  ELSE IF chain[i] = "none" THEN TRUE
  ELSE IF chain[i] = "implicit" THEN inferredFrom(chain, i + 1)
  ELSE FALSE

\* isInferredDynamic(ValD)
isInferredDynamic(d) ==
  IF isAccessor(d.kind) /\ ~inferredFrom(d.storageChain, 1) THEN FALSE
  ELSE inferredFrom(d.chain, 1)

\* `if (Access == Accessibility::Public) return true;
\*  if (Access == Accessibility::Internal && !WholeModComp) return true;'
hiddenFromSealing_publicOnly(access, wholeModComp) == access = "Public"
hiddenFromSealing(access, wholeModComp) ==
  \/ access = "Public"
  \/ access = "Internal" /\ ~wholeModComp

\* `if (FD->isSetter() && !FD->getAccessorStorageDecl()->isFinal())'
setterHeldBack_never(d) == FALSE
setterHeldBack(d) == d.kind = "Setter" /\ ~d.storageFinal

\* `if (ValD->isFinal() || ValD->isInvalid() || !ValD->hasAccessibility())'
skippedOutright_finalOnly(d) == d.isFinal
skippedOutright(d) == d.isFinal \/ d.isInvalid \/ ~d.hasAccessibility

\* `!ASD->isOverridden() && isInClass(ASD->getDeclContext())', and the same
\* test on an AbstractFunctionDecl
sealableMember_anyContext(d) == ~d.isOverridden
sealableMember(d) == ~d.isOverridden /\ d.inClass

\* The outcome of a walkToDeclPre call
SealOutcome(continue, addFinal, removeDynamic, exit) ==
  [continue |-> continue, addFinal |-> addFinal,
   removeDynamic |-> removeDynamic, exit |-> exit]

\* walkToDeclPre(D): what it returns, whether it reached addFinal, whether
\* it removed the dynamic attribute, and the test it returned at
walkToDeclPre(d, wholeModComp) ==
  LET dynamicAttr == d.chain[1] # "none"
      sealable == sealableMember(d)
  IN
  IF d.kind = "NonValue" THEN SealOutcome(TRUE, FALSE, FALSE, "not_value")
  ELSE IF d.kind \in {"Constructor", "Destructor"}
    THEN SealOutcome(TRUE, FALSE, FALSE, "constructor")
  ELSE IF skippedOutright(d)
    THEN SealOutcome(FALSE, FALSE, FALSE, "skipped")
  ELSE IF dynamicAttr /\ ~isInferredDynamic(d)
    THEN SealOutcome(FALSE, FALSE, FALSE, "dynamic")
  ELSE IF hiddenFromSealing(d.access, wholeModComp)
    THEN SealOutcome(TRUE, FALSE, FALSE, "visibility")
  ELSE IF d.kind = "Storage"
    THEN SealOutcome(TRUE, sealable, sealable /\ dynamicAttr, "storage")
  ELSE IF d.kind \in {"Func", "Getter", "Setter"} THEN
    IF sealable /\ setterHeldBack(d)
    THEN SealOutcome(TRUE, FALSE, FALSE, "setter")
    ELSE SealOutcome(TRUE, sealable, sealable /\ dynamicAttr, "function")
  ELSE SealOutcome(TRUE, FALSE, FALSE, "class")

\* No walkToDeclPre call made yet
NoVisit ==
  [decl |-> [kind |-> "NonValue", access |-> "Private", isFinal |-> FALSE,
             isInvalid |-> FALSE, hasAccessibility |-> FALSE,
             chain |-> <<"none">>, isOverridden |-> FALSE,
             inClass |-> FALSE, storageFinal |-> FALSE,
             storageChain |-> <<"none">>],
   outcome |-> SealOutcome(TRUE, FALSE, FALSE, "none")]

\* The walker not in use
IdleSeal ==
  /\ WholeModComp = FALSE
  /\ sealLast = NoVisit

\* No declaration of the extension loop visited yet
NoGate == [decl |-> 0, inherited |-> <<>>, gate |-> FALSE,
           validated |-> FALSE]

\* performTypeChecking not running
IdleDriver ==
  /\ lastGate = NoGate
  /\ nameBound = FALSE
  /\ firstPassed = {}
  /\ secondPassed = {}

IdleHelpers == IdleLiteral /\ IdleSeal /\ IdleDriver

(***************************************************************************)
(* bindExtensionDecl: data.                                                *)
(***************************************************************************)

\* NominalTypeDecl *typeDecl = nullptr
NoTypeDecl == -1

\* The nominal type declarations of the program.  A declaration is named by
\* the number of its generic parameters; 0 is a non-generic type.
NominalTypeDecls == 0..MaxParams

\* typeDecl->getGenericParams()->size(), 0 when getGenericParams() is null
getGenericParams(typeDecl) == typeDecl

\* TC.Context.Id_Type against any other identifier
Names == {"Type", "Id"}

\* One ExtensionDecl::RefComponent together with what its identifier was
\* bound to by validateType:
\*   Name           ref.Name
\*   GenericParams  ref.GenericParams->size(), 0 for a null list
\*   Outer          index of the component whose list is this list's outer
\*                  parameter list, 0 for none
\*   Decl           the NominalTypeDecl the identifier refers to, NoTypeDecl
\*                  when it refers to no nominal type declaration
RefComponents ==
  [Name : Names, GenericParams : 0..MaxParams, Outer : {0},
   Decl : {NoTypeDecl} \cup NominalTypeDecls]

\* Type() : the null type
NullType == [kind |-> "null", decl |-> NoTypeDecl]

\* ErrorType::get(TC.Context)
ErrorType == [kind |-> "ErrorType", decl |-> NoTypeDecl]

\* A resolved type that is neither NominalType nor UnboundGenericType
OtherType == [kind |-> "Other", decl |-> NoTypeDecl]

\* typeDecl->getDeclaredType(): the type a reference to the declaration
\* resolves to under TR_AllowUnboundGenerics
getDeclaredType(typeDecl) ==
  [kind |-> IF getGenericParams(typeDecl) = 0 THEN "NominalType"
            ELSE "UnboundGenericType",
   decl |-> typeDecl]

\* typeLoc.getType() after a successful validateType: the type of the last
\* component of the IdentTypeRepr
typeLocType(refs) ==
  LET last == refs[Len(refs)] IN
  IF last.Decl = NoTypeDecl THEN OtherType ELSE getDeclaredType(last.Decl)

\* extendedTy->is<NominalType>() || extendedTy->is<UnboundGenericType>()
isNominalOrUnbound(ty) == ty.kind \in {"NominalType", "UnboundGenericType"}

\* An unbound extension as the parser leaves it
UnboundExtension(refs) ==
  [RefComponents |-> refs, ExtendedType |-> NullType, Invalid |-> FALSE]


ExtensionShapes ==
  {UnboundExtension(refs) : refs \in SeqsOf(RefComponents, 1, MaxComponents)}

Diag(kind, at) == [kind |-> kind, at |-> at]

(***************************************************************************)
(* bindExtensionDecl: the three stages of the function.                    *)
(***************************************************************************)

\* The first loop: the index of the first component after the first one
\* that is named "Type", 0 when there is none.
RECURSIVE metatypeComponent(_, _)
metatypeComponent(refs, i) ==
  IF i > Len(refs) THEN 0
  ELSE IF refs[i].Name = "Type" /\ i > 1 THEN i
  ELSE metatypeComponent(refs, i + 1)

\* `ref.GenericParams = nullptr;'
dropParams_kept(refs, i) == refs
dropParams(refs, i) == [refs EXCEPT ![i].GenericParams = 0]

\* `ref.GenericParams->size() != typeDecl->getGenericParams()->size()'
arityMismatch_excessOnly(ref, typeDecl) ==
  ref.GenericParams > getGenericParams(typeDecl)
arityMismatch(ref, typeDecl) ==
  ref.GenericParams # getGenericParams(typeDecl)

\* `ref.GenericParams->setOuterParameters(outerGenericParams);'
chainOuter_previous(refs, i, outer) == [refs EXCEPT ![i].Outer = i - 1]
chainOuter(refs, i, outer) == [refs EXCEPT ![i].Outer = outer]

\* The component walk from component i on, with the running outer list
\* `outer` (index of the component that owns it, 0 for nullptr).
\* Result: the components as the walk leaves them, the diagnostics it
\* emitted, the outcome per visited component, and the index of the
\* component where the walk returned early (0 when it ran to the end).
RECURSIVE walkComponents(_, _, _, _, _)
walkComponents(refs, i, outer, diags, steps) ==
  IF i > Len(refs)
  THEN [refs |-> refs, diags |-> diags, steps |-> steps, mismatchAt |-> 0]
  ELSE
    LET ref == refs[i]
        typeDecl == ref.Decl
    IN
    IF typeDecl = NoTypeDecl THEN
      IF ref.GenericParams # 0
      THEN walkComponents(dropParams(refs, i), i + 1, outer,
             Append(diags, Diag("extension_generic_params_for_non_generic", i)),
             Append(steps, "dropped_no_decl"))
      ELSE walkComponents(refs, i + 1, outer, diags, Append(steps, "no_decl"))
    ELSE IF getGenericParams(typeDecl) # 0 /\ ref.GenericParams = 0 THEN
      walkComponents(refs, i + 1, outer, diags, Append(steps, "no_params"))
    ELSE IF getGenericParams(typeDecl) = 0 /\ ref.GenericParams # 0 THEN
      walkComponents(dropParams(refs, i), i + 1, outer,
        diags \o <<Diag("extension_generic_params_for_non_generic_type", i),
                   Diag("extended_type_here", i)>>,
        Append(steps, "dropped_non_generic"))
    ELSE IF ref.GenericParams = 0 THEN
      walkComponents(refs, i + 1, outer, diags, Append(steps, "neither"))
    ELSE IF arityMismatch(ref, typeDecl) THEN
      [refs |-> refs,
       diags |-> Append(diags,
                   Diag("extension_generic_wrong_number_of_parameters", i)),
       steps |-> Append(steps, "mismatch"),
       mismatchAt |-> i]
    ELSE
      walkComponents(chainOuter(refs, i, outer), i + 1, i, diags,
                     Append(steps, "chained"))

\* ED->setInvalid(); ED->setExtendedType(ErrorType::get(TC.Context));
invalidate_typeLeftUnset(ed) == [ed EXCEPT !.Invalid = TRUE]
invalidate(ed) == [ed EXCEPT !.Invalid = TRUE, !.ExtendedType = ErrorType]

\* The result of a call that returns at `path`
BindResult(ed, diags, steps, path, mismatchAt, register) ==
  [ED |-> ed, diags |-> diags, steps |-> steps, path |-> path,
   mismatchAt |-> mismatchAt, register |-> register]

\* `if (ED->getExtendedType()) return;'
alreadyBound_unlessError(ed) == ed.ExtendedType \notin {NullType, ErrorType}
alreadyBound(ed) == ed.ExtendedType # NullType

\* bindExtensionDecl(ED, TC), where validateFails is what
\* TC.validateType(typeLoc, dc, TR_AllowUnboundGenerics) returns.
bindExtensionDecl(ed, validateFails) ==
  LET refs == ed.RefComponents
      meta == metatypeComponent(refs, 1)
      walk == walkComponents(refs, 1, 0, <<>>, <<>>)
      walked == [ed EXCEPT !.RefComponents = walk.refs]
      extendedTy == typeLocType(refs)
  IN
  IF alreadyBound(ed) THEN
    BindResult(ed, <<>>, <<>>, "already_bound", 0, NoTypeDecl)
  ELSE IF meta # 0 THEN
    BindResult(invalidate(ed), <<Diag("extension_metatype", meta)>>, <<>>,
               "metatype", 0, NoTypeDecl)
  ELSE IF validateFails THEN
    BindResult(invalidate(ed), <<>>, <<>>, "validate_failed", 0, NoTypeDecl)
  ELSE IF walk.mismatchAt # 0 THEN
    BindResult(invalidate(walked), walk.diags, walk.steps, "arity_mismatch",
               walk.mismatchAt, NoTypeDecl)
  ELSE IF ~isNominalOrUnbound(extendedTy) THEN
    BindResult(invalidate(walked),
               Append(walk.diags, Diag("non_nominal_extension", 0)),
               walk.steps, "non_nominal", 0, NoTypeDecl)
  ELSE
    BindResult([walked EXCEPT !.ExtendedType = extendedTy], walk.diags,
               walk.steps, "bound", 0, extendedTy.decl)

\* nominal->addExtension(ED)
addExtension_alsoOnFailure(exts, typeDecl, id) ==
  IF typeDecl = NoTypeDecl THEN [exts EXCEPT ![0] = Append(@, id)]
  ELSE [exts EXCEPT ![typeDecl] = Append(@, id)]
addExtension(exts, typeDecl, id) ==
  IF typeDecl = NoTypeDecl THEN exts
  ELSE [exts EXCEPT ![typeDecl] = Append(@, id)]

(***************************************************************************)
(* The binder on its own: one extension of any shape, bound repeatedly.    *)
(***************************************************************************)

NoBind == [path |-> "none", steps |-> <<>>, mismatchAt |-> 0,
           before |-> UnboundExtension(<<>>), emitted |-> <<>>]

\* The extension the binder is studied on: the file's only declaration
ED == ExtOf[1]

\* The scheduler before typeCheckFunctionsAndExternalDecls has run
IdleScheduler ==
  /\ ExternalDefinitions = <<>>
  /\ LastCheckedExternalDefinition = 0
  /\ definedFunctions = <<>>
  /\ implicitlyDefinedFunctions = <<>>
  /\ ValidatedTypes = <<>>
  /\ caller = "none"
  /\ idx = 0
  /\ hasTopLevelCode = FALSE
  /\ currentFunctionIdx = 0
  /\ currentExternalDef = 0
  /\ previousFunctionIdx = 0
  /\ loopN = 0
  /\ loopI = 0
  /\ bodyLog = <<>>
  /\ captureLog = <<>>
  /\ extLog = <<>>

InitBind ==
  /\ Decls = <<"extension">>
  /\ ExtOf \in {<<ed>> : ed \in ExtensionShapes}
  /\ ASTStage = "Parsed"
  /\ StartElem = 0
  /\ declState = <<"unchecked">>
  /\ Extensions = [td \in NominalTypeDecls |-> <<>>]
  /\ Diags = <<>>
  /\ lastBind = NoBind
  /\ numCalls = 0
  /\ pc = "bind_only"
  /\ IdleScheduler
  /\ IdleHelpers

\* One call bindExtensionDecl(ED, TC) on the extension SF.Decls[d]
BindCall(d) ==
  \E validateFails \in BOOLEAN :
     LET r == bindExtensionDecl(ExtOf[d], validateFails) IN
     /\ ExtOf' = [ExtOf EXCEPT ![d] = r.ED]
     /\ Diags' = Diags \o r.diags
     /\ Extensions' = addExtension(Extensions, r.register, d)
     /\ lastBind' = [path |-> r.path, steps |-> r.steps,
                     mismatchAt |-> r.mismatchAt, before |-> ExtOf[d],
                     emitted |-> r.diags]
     /\ numCalls' = numCalls + 1

BindExtension ==
  /\ pc = "bind_only"
  /\ numCalls < MaxCalls
  /\ BindCall(1)
  /\ UNCHANGED <<Decls, ASTStage, StartElem, declState>>
  /\ UNCHANGED <<ctxVars, tcVars, localVars, logVars>>
  /\ UNCHANGED helperVars

NextBind == BindExtension

SpecBind == InitBind /\ [][NextBind]_vars

(***************************************************************************)
(* The literal resolver on its own: expressions looked up one after the    *)
(* other in one registry.                                                  *)
(***************************************************************************)

InitLiteral ==
  /\ Decls = <<>>
  /\ ExtOf = <<>>
  /\ ASTStage = "Parsed"
  /\ StartElem = 0
  /\ declState = <<>>
  /\ Extensions = [td \in NominalTypeDecls |-> <<>>]
  /\ Diags = <<>>
  /\ lastBind = NoBind
  /\ numCalls = 0
  /\ pc = "literal_only"
  /\ IdleScheduler
  /\ litRegistry \in Registries
  /\ litLast = NoLookup
  /\ litDiags = <<>>
  /\ numLookups = 0
  /\ IdleSeal
  /\ IdleDriver

\* One call getLiteralProtocol(expr)
LookupLiteral ==
  /\ pc = "literal_only"
  /\ numLookups < MaxLookups
  /\ \E expr \in Exprs, validates \in BOOLEAN, typed \in BOOLEAN :
       LET r == getLiteralProtocol(litRegistry, expr, validates, typed) IN
       /\ litRegistry' = r.registry
       /\ litDiags' = litDiags \o r.diags
       /\ litLast' = [expr |-> expr, protocol |-> r.protocol,
                      emitted |-> r.diags, asked |-> r.asked,
                      before |-> litRegistry]
  /\ numLookups' = numLookups + 1
  /\ UNCHANGED <<fileVars, ctxVars, bindVars, tcVars, localVars, logVars>>
  /\ UNCHANGED <<sealVars, driverLog>>

NextLiteral == LookupLiteral

SpecLiteral == InitLiteral /\ [][NextLiteral]_vars

(***************************************************************************)
(* The walker on its own: performWholeModuleChecks in either mode, the     *)
(* walker visiting a declaration.                                          *)
(***************************************************************************)

InitSeal ==
  /\ Decls = <<>>
  /\ ExtOf = <<>>
  /\ ASTStage = "TypeChecked"
  /\ StartElem = 0
  /\ declState = <<>>
  /\ Extensions = [td \in NominalTypeDecls |-> <<>>]
  /\ Diags = <<>>
  /\ lastBind = NoBind
  /\ numCalls = 0
  /\ pc = "performWholeModuleChecks"
  /\ IdleScheduler
  /\ IdleLiteral
  /\ WholeModComp \in BOOLEAN
  /\ sealLast = NoVisit
  /\ IdleDriver

\* tryFinal(D) reaching a declaration: one walkToDeclPre call
TryAddFinalVisit ==
  /\ pc = "performWholeModuleChecks"
  /\ \E d \in SealDecls :
       sealLast' = [decl |-> d, outcome |-> walkToDeclPre(d, WholeModComp)]
  /\ pc' = "sealing_done"
  /\ UNCHANGED WholeModComp
  /\ UNCHANGED <<fileVars, ctxVars, bindVars, tcVars, logVars, litVars>>
  /\ UNCHANGED driverLog
  /\ UNCHANGED <<caller, idx, hasTopLevelCode, currentFunctionIdx,
                 currentExternalDef, previousFunctionIdx, loopN, loopI>>

NextSeal == TryAddFinalVisit

SpecSeal == InitSeal /\ [][NextSeal]_vars

(***************************************************************************)
(* The collaborators, by their effect on the state of this file.           *)
(***************************************************************************)

\* The kinds of Decl the scheduler handles in ExternalDefinitions:
\* AbstractFunctionDecl, and the NominalTypeDecls of handleExternalDecl
ExtKinds == {"func", "struct", "class", "enum"}

\* The kinds a check made during a run appends to ExternalDefinitions: a
\* function or a nominal type with synthesized members.  The scheduler
\* treats every nominal type alike (line 346); the other kinds reach it
\* through ImportedKinds.
DiscoveredKinds == {"func", "struct"}

\* Number of items appended to the work lists so far
created == (Len(declState) - Len(Decls)) + Len(ExternalDefinitions)

Min(a, b) == IF a < b THEN a ELSE b

\* What one collaborator call may append: fns nested functions to
\* definedFunctions, impl synthesized functions to
\* implicitlyDefinedFunctions, types nominal types to ValidatedTypes and
\* the external definitions exts.
Effects ==
  LET c == Min(MaxNew - created, MaxPerCall) IN
  {e \in [fns : 0..c, impl : 0..c, types : 0..c,
          exts : SeqsOf(DiscoveredKinds, 0, c)] :
     e.fns + e.impl + e.types + Len(e.exts) <= c}

NoEffect == [fns |-> 0, impl |-> 0, types |-> 0, exts |-> <<>>]

\* What a declaration check made by the driver, outside the scheduler,
\* appends: validateDecl and the first pass defer nominal types to
\* ValidatedTypes, the second pass queues function bodies and stages
\* synthesized functions.
DeferringEffects ==
  {[fns |-> 0, impl |-> 0, types |-> t, exts |-> <<>>] :
     t \in 0..Min(MaxNew - created, MaxPerCall)}
QueueingEffects ==
  LET c == Min(MaxNew - created, MaxPerCall) IN
  {e \in [fns : 0..c, impl : 0..c, types : {0}, exts : {<<>>}] :
     e.fns + e.impl <= c}

\* What external declaration handling appends: implicit members only
SynthesisEffects ==
  {[fns |-> 0, impl |-> m, types |-> 0, exts |-> <<>>] :
     m \in 0..Min(MaxNew - created, MaxPerCall)}

\* What the first-pass validation of a deferred nominal type appends:
\* implicit members and further deferred types
ValidationEffects ==
  LET c == Min(MaxNew - created, MaxPerCall) IN
  {e \in [fns : {0}, impl : 0..c, types : 0..c, exts : {<<>>}] :
     e.impl + e.types <= c}

\* The NominalTypeDecls: isa<NominalTypeDecl>(decl)
NominalKinds == {"struct", "class", "enum", "protocol"}

\* What a module loader may have left in ExternalDefinitions when
\* typeCheckExternalDefinitions is called: the kinds above, a protocol,
\* and a Decl that is neither function-like nor a nominal type
ImportedKinds == ExtKinds \cup {"protocol", "other"}

\* handleExternalDecl(decl): the helpers it calls, by the dynamic class of
\* decl; a protocol matches none of the three casts
handleExternalDecl(kind) ==
  (IF kind = "struct"
   THEN {"addImplicitConstructors", "addImplicitStructConformances"}
   ELSE {})
  \cup (IF kind = "class" THEN {"addImplicitDestructor"} ELSE {})
  \cup (IF kind = "enum" THEN {"addImplicitEnumConformances"} ELSE {})

\* What the check of an external definition of the given kind appends:
\* a body check anything, a synthesis helper implicit members
ExternalEffects(kind) ==
  IF kind = "func" THEN Effects
  ELSE IF handleExternalDecl(kind) # {} THEN SynthesisEffects
  ELSE {NoEffect}

\* Number of declarations marked invalid so far
failures == Cardinality({d \in DOMAIN declState : declState[d] = "invalid"})

\* The validation state a check leaves a declaration in: a failure marks
\* it invalid, and an invalid declaration stays invalid.
Outcomes(state) ==
  IF state = "invalid" THEN {"invalid"}
  ELSE IF failures < MaxFailures THEN {"valid", "invalid"}
  ELSE {"valid"}

\* The work lists after a collaborator call with effect e made while
\* checking declaration `by' (0: not a body check), where st and vt are
\* declState and ValidatedTypes as the caller leaves them.
Appends(by, e, st, vt) ==
  LET base == Len(st) IN
  /\ definedFunctions' = definedFunctions \o
       [k \in 1..e.fns |-> [id |-> base + k, parent |-> by]]
  /\ implicitlyDefinedFunctions' = implicitlyDefinedFunctions \o
       [k \in 1..e.impl |-> [id |-> base + e.fns + k, parent |-> 0]]
  /\ ValidatedTypes' = vt \o
       [k \in 1..e.types |-> base + e.fns + e.impl + k]
  /\ ExternalDefinitions' = ExternalDefinitions \o e.exts
  /\ declState' = st \o [k \in 1..(e.fns + e.impl + e.types) |-> "unchecked"]

(***************************************************************************)
(* typeCheckFunctionsAndExternalDecls.  Cursors are 0-based as in the      *)
(* code; sequence positions are 1-based.                                   *)
(***************************************************************************)

\* `for (unsigned n = TC.Context.ExternalDefinitions.size(); ...'
enterExternalLoop ==
  /\ pc' = "external_for"
  /\ loopN' = Len(ExternalDefinitions)

\* `unsigned currentExternalDef = TC.Context.LastCheckedExternalDefinition'
startingCursor_asFunctionCursor == currentFunctionIdx'
startingCursor == LastCheckedExternalDefinition

\* unsigned currentFunctionIdx = 0;
\* unsigned currentExternalDef = TC.Context.LastCheckedExternalDefinition;
SchedulerEnter ==
  /\ pc = "scheduler"
  /\ currentFunctionIdx' = 0
  /\ currentExternalDef' = startingCursor
  /\ enterExternalLoop
  /\ UNCHANGED <<fileVars, ctxVars, bindVars, tcVars, logVars>>
  /\ UNCHANGED <<caller, idx, hasTopLevelCode, previousFunctionIdx, loopI>>
  /\ UNCHANGED helperVars

\* The call of lines 341-350 an external definition gets, with the
\* helpers handleExternalDecl calls for it: typeCheckAbstractFunctionBody
\* for an AbstractFunctionDecl, handleExternalDecl for a NominalTypeDecl,
\* and line 350 for anything else
Treatment(call, helpers) == [call |-> call, helpers |-> helpers]

externalTreatment(kind) ==
  IF kind = "func" THEN Treatment("typeCheckAbstractFunctionBody", {})
  ELSE IF kind \in NominalKinds
    THEN Treatment("handleExternalDecl", handleExternalDecl(kind))
  ELSE Treatment("llvm_unreachable", {})

\* The declaration the external loop is at
currentDecl == ExternalDefinitions[currentExternalDef + 1]

\* One iteration of the external-definition loop on a function or a
\* nominal type
ExternalStep ==
  /\ pc = "external_for"
  /\ currentExternalDef # loopN
  /\ externalTreatment(currentDecl).call # "llvm_unreachable"
  /\ \E e \in ExternalEffects(currentDecl) :
       Appends(0, e, declState, ValidatedTypes)
  /\ extLog' = Append(extLog,
       [index |-> currentExternalDef, by |-> caller,
        treatment |-> externalTreatment(currentDecl)])
  /\ currentExternalDef' = currentExternalDef + 1
  /\ UNCHANGED <<Decls, ExtOf, ASTStage, StartElem>>
  /\ UNCHANGED <<LastCheckedExternalDefinition, bindVars, bodyLog, captureLog>>
  /\ UNCHANGED <<pc, caller, idx, hasTopLevelCode, currentFunctionIdx,
                 previousFunctionIdx, loopN, loopI>>
  /\ UNCHANGED helperVars

\* One iteration of the external-definition loop on a declaration of any
\* other kind: llvm_unreachable.  A build with assertions prints the
\* message and aborts.  A build without them compiles the macro to
\* __builtin_unreachable(), which is undefined: the compiler may take the
\* test of line 346 to be true, so that handleExternalDecl is called,
\* matches none of its casts, and the loop goes on.
UnhandledExternalStep ==
  /\ pc = "external_for"
  /\ currentExternalDef # loopN
  /\ externalTreatment(currentDecl).call = "llvm_unreachable"
  /\ \/ /\ pc' = "aborted"
        /\ extLog' = Append(extLog,
             [index |-> currentExternalDef, by |-> caller,
              treatment |-> externalTreatment(currentDecl)])
        /\ UNCHANGED currentExternalDef
     \/ /\ pc' = pc
        /\ extLog' = Append(extLog,
             [index |-> currentExternalDef, by |-> caller,
              treatment |->
                Treatment("handleExternalDecl",
                          handleExternalDecl(currentDecl))])
        /\ currentExternalDef' = currentExternalDef + 1
  /\ UNCHANGED <<fileVars, ctxVars, bindVars, tcVars, bodyLog, captureLog>>
  /\ UNCHANGED <<caller, idx, hasTopLevelCode, currentFunctionIdx,
                 previousFunctionIdx, loopN, loopI>>
  /\ UNCHANGED helperVars

\* `unsigned n = TC.definedFunctions.size()'
functionsSnapshot_onePast == Len(definedFunctions) + 1
functionsSnapshot == Len(definedFunctions)

\* The external loop ends; `unsigned previousFunctionIdx = ...' and the
\* initialisation of the function loop
ExternalDone ==
  /\ pc = "external_for"
  /\ currentExternalDef = loopN
  /\ previousFunctionIdx' = currentFunctionIdx
  /\ loopN' = functionsSnapshot
  /\ pc' = "function_for"
  /\ UNCHANGED <<fileVars, ctxVars, bindVars, tcVars, logVars>>
  /\ UNCHANGED <<caller, idx, hasTopLevelCode, currentFunctionIdx,
                 currentExternalDef, loopI>>
  /\ UNCHANGED helperVars

\* One iteration of the function loop:
\* TC.typeCheckAbstractFunctionBody(TC.definedFunctions[currentFunctionIdx])
FunctionStep ==
  /\ pc = "function_for"
  /\ currentFunctionIdx # loopN
  /\ LET AFD == definedFunctions[currentFunctionIdx + 1] IN
     \E e \in Effects, result \in Outcomes(declState[AFD.id]) :
       Appends(AFD.id, e, [declState EXCEPT ![AFD.id] = result],
               ValidatedTypes)
  /\ bodyLog' = Append(bodyLog, currentFunctionIdx)
  /\ currentFunctionIdx' = currentFunctionIdx + 1
  /\ UNCHANGED <<Decls, ExtOf, ASTStage, StartElem>>
  /\ UNCHANGED <<LastCheckedExternalDefinition, bindVars, captureLog, extLog>>
  /\ UNCHANGED <<pc, caller, idx, hasTopLevelCode, currentExternalDef,
                 previousFunctionIdx, loopN, loopI>>
  /\ UNCHANGED helperVars

\* The function loop ends; `unsigned i = currentFunctionIdx'
FunctionDone ==
  /\ pc = "function_for"
  /\ currentFunctionIdx = loopN
  /\ loopI' = currentFunctionIdx
  /\ pc' = "capture_for"
  /\ UNCHANGED <<fileVars, ctxVars, bindVars, tcVars, logVars>>
  /\ UNCHANGED <<caller, idx, hasTopLevelCode, currentFunctionIdx,
                 currentExternalDef, previousFunctionIdx, loopN>>
  /\ UNCHANGED helperVars

\* `i > previousFunctionIdx'
captureLoopRuns_skipsFirst == loopI > previousFunctionIdx + 1
captureLoopRuns == loopI > previousFunctionIdx

\* The index in `TC.definedFunctions[i-1]'
capturedIndex_ascending ==
  previousFunctionIdx + (currentFunctionIdx - loopI)
capturedIndex == loopI - 1

\* One iteration of the capture loop: TC.computeCaptures(definedFunctions[i-1])
CaptureStep ==
  /\ pc = "capture_for"
  /\ captureLoopRuns
  /\ captureLog' = Append(captureLog, capturedIndex)
  /\ loopI' = loopI - 1
  /\ UNCHANGED <<fileVars, ctxVars, bindVars, tcVars, bodyLog, extLog>>
  /\ UNCHANGED <<pc, caller, idx, hasTopLevelCode, currentFunctionIdx,
                 currentExternalDef, previousFunctionIdx, loopN>>
  /\ UNCHANGED helperVars

CaptureDone ==
  /\ pc = "capture_for"
  /\ ~captureLoopRuns
  /\ pc' = "validated_while"
  /\ UNCHANGED <<fileVars, ctxVars, bindVars, tcVars, logVars>>
  /\ UNCHANGED <<caller, idx, hasTopLevelCode, currentFunctionIdx,
                 currentExternalDef, previousFunctionIdx, loopN, loopI>>
  /\ UNCHANGED helperVars

\* One iteration of `while (!TC.ValidatedTypes.empty())': pop_back and
\* TC.typeCheckDecl(nominal, /*isFirstPass=*/true)
ValidatedStep ==
  /\ pc = "validated_while"
  /\ ValidatedTypes # <<>>
  /\ LET nominal == ValidatedTypes[Len(ValidatedTypes)]
         popped == SubSeq(ValidatedTypes, 1, Len(ValidatedTypes) - 1)
     IN
     \E e \in ValidationEffects, result \in Outcomes(declState[nominal]) :
       Appends(0, e, [declState EXCEPT ![nominal] = result], popped)
  /\ UNCHANGED <<Decls, ExtOf, ASTStage, StartElem>>
  /\ UNCHANGED <<LastCheckedExternalDefinition, bindVars, logVars, localVars>>
  /\ UNCHANGED helperVars

\* TC.definedFunctions.insert(end, implicitlyDefinedFunctions...);
\* TC.implicitlyDefinedFunctions.clear();
moveImplicitFunctions_onlyCleared ==
  /\ definedFunctions' = definedFunctions
  /\ implicitlyDefinedFunctions' = <<>>
moveImplicitFunctions ==
  /\ definedFunctions' = definedFunctions \o implicitlyDefinedFunctions
  /\ implicitlyDefinedFunctions' = <<>>

\* The stack is empty: the staged functions are moved
ValidatedDone ==
  /\ pc = "validated_while"
  /\ ValidatedTypes = <<>>
  /\ moveImplicitFunctions
  /\ pc' = "do_while"
  /\ UNCHANGED <<fileVars, ctxVars, bindVars, ValidatedTypes, logVars>>
  /\ UNCHANGED <<caller, idx, hasTopLevelCode, currentFunctionIdx,
                 currentExternalDef, previousFunctionIdx, loopN, loopI>>
  /\ UNCHANGED helperVars

\* `while (currentFunctionIdx < TC.definedFunctions.size() ||
\*         currentExternalDef < TC.Context.ExternalDefinitions.size())'
workLeft_functionsOnly == currentFunctionIdx < Len(definedFunctions)
workLeft_orEqual ==
  \/ currentFunctionIdx <= Len(definedFunctions)
  \/ currentExternalDef < Len(ExternalDefinitions)
workLeft ==
  \/ currentFunctionIdx < Len(definedFunctions)
  \/ currentExternalDef < Len(ExternalDefinitions)

LoopAgain ==
  /\ pc = "do_while"
  /\ workLeft
  /\ enterExternalLoop
  /\ UNCHANGED <<fileVars, ctxVars, bindVars, tcVars, logVars>>
  /\ UNCHANGED <<caller, idx, hasTopLevelCode, currentFunctionIdx,
                 currentExternalDef, previousFunctionIdx, loopI>>
  /\ UNCHANGED helperVars

LoopExit ==
  /\ pc = "do_while"
  /\ ~workLeft
  /\ pc' = "scheduler_exit"
  /\ UNCHANGED <<fileVars, ctxVars, bindVars, tcVars, logVars>>
  /\ UNCHANGED <<caller, idx, hasTopLevelCode, currentFunctionIdx,
                 currentExternalDef, previousFunctionIdx, loopN, loopI>>
  /\ UNCHANGED helperVars

\* TC.Context.LastCheckedExternalDefinition = currentExternalDef; return
SchedulerReturn ==
  /\ pc = "scheduler_exit"
  /\ LastCheckedExternalDefinition' = currentExternalDef
  /\ pc' = "scheduler_returned"
  /\ UNCHANGED <<fileVars, ExternalDefinitions, bindVars, tcVars, logVars>>
  /\ UNCHANGED <<caller, idx, hasTopLevelCode, currentFunctionIdx,
                 currentExternalDef, previousFunctionIdx, loopN, loopI>>
  /\ UNCHANGED helperVars

Scheduler ==
  \/ SchedulerEnter
  \/ ExternalStep
  \/ ExternalDone
  \/ FunctionStep
  \/ FunctionDone
  \/ CaptureStep
  \/ CaptureDone
  \/ ValidatedStep
  \/ ValidatedDone
  \/ LoopAgain
  \/ LoopExit
  \/ SchedulerReturn

(***************************************************************************)
(* mayConformToKnownProtocol.                                              *)
(***************************************************************************)

\* Names of swift/AST/KnownProtocols.def that this file itself uses
KnownProtocolNames ==
  {"ArrayLiteralConvertible", "DictionaryLiteralConvertible",
   "NilLiteralConvertible", "IntegerLiteralConvertible",
   "FloatLiteralConvertible", "BooleanLiteralConvertible",
   "CharacterLiteralConvertible",
   "ExtendedGraphemeClusterLiteralConvertible",
   "StringLiteralConvertible", "StringInterpolationConvertible"}

\* One written inheritance entry: whether its TypeRepr is an IdentTypeRepr,
\* whether the last component is a SimpleIdentTypeRepr, and its identifier
InheritedEntries ==
  {e \in [ident : BOOLEAN, simple : BOOLEAN,
          name : {"IntegerLiteralConvertible", "integerliteralconvertible",
                  "Printable"}] :
     /\ ~e.ident => ~e.simple
     /\ ~e.simple => e.name = "IntegerLiteralConvertible"}

InheritedLists == SeqsOf(InheritedEntries, 0, MaxInherited)

mayConformToKnownProtocol_anyIdentifier(inherited) ==
  \E k \in DOMAIN inherited :
    /\ inherited[k].ident
    /\ inherited[k].name \in KnownProtocolNames
mayConformToKnownProtocol(inherited) ==
  \E k \in DOMAIN inherited :
    /\ inherited[k].ident
    /\ inherited[k].simple
    /\ inherited[k].name \in KnownProtocolNames

(***************************************************************************)
(* swift::performTypeChecking.                                             *)
(***************************************************************************)

\* The kinds of top-level declaration the driver tells apart
TopKinds == {"func", "nominal", "extension", "tlc"}

\* The source files checked: every sequence of at most two declarations
SourceFiles == SeqsOf(TopKinds, 0, Cardinality({"first", "second"}))

\* ExtOf of a declaration that is not an extension
NotAnExtension == UnboundExtension(<<>>)

\* The extension declarations of the checked file: `extension T' of the
\* non-generic nominal type
FileExtension ==
  UnboundExtension(<<[Name |-> "Id", GenericParams |-> 0, Outer |-> 0,
                      Decl |-> 0]>>)

\* ED->getExtendedType()->getAnyNominal()
getAnyNominal(ty) == IF isNominalOrUnbound(ty) THEN ty.decl ELSE NoTypeDecl

\* The extension list of typeDecl when the extensions among the
\* declarations 1..upto of exts have been bound in order
RECURSIVE boundExtensions(_, _, _)
boundExtensions(exts, typeDecl, upto) ==
  IF upto = 0 THEN <<>>
  ELSE LET rest == boundExtensions(exts, typeDecl, upto - 1) IN
       IF getAnyNominal(exts[upto].ExtendedType) = typeDecl
       THEN Append(rest, upto) ELSE rest

\* A file parsed up to Len(Decls) declarations of which the first
\* StartElem were checked by an earlier call, without error: they are
\* valid and their extensions are bound.
Init ==
  /\ Decls \in SourceFiles
  /\ StartElem \in 0..Len(Decls)
  /\ declState = [d \in 1..Len(Decls) |->
                    IF d > StartElem THEN "unchecked" ELSE "valid"]
  /\ ExtOf = [d \in 1..Len(Decls) |->
                IF Decls[d] # "extension" THEN NotAnExtension
                ELSE IF d > StartElem THEN FileExtension
                ELSE bindExtensionDecl(FileExtension, FALSE).ED]
  /\ Extensions =
       [td \in NominalTypeDecls |-> boundExtensions(ExtOf, td, Len(Decls))]
  /\ ASTStage = "Parsed"
  /\ Diags = <<>>
  /\ lastBind = NoBind
  /\ numCalls = 0
  /\ pc = "performTypeChecking"
  /\ IdleScheduler
  /\ IdleHelpers

\* The guard of line 400 passed: performNameBinding, a fresh TypeChecker,
\* getStdlibModule
PerformTypeChecking ==
  /\ pc = "performTypeChecking"
  /\ ASTStage # "TypeChecked"
  /\ definedFunctions' = <<>>
  /\ implicitlyDefinedFunctions' = <<>>
  /\ ValidatedTypes' = <<>>
  /\ bodyLog' = <<>>
  /\ captureLog' = <<>>
  /\ caller' = "performTypeChecking"
  /\ pc' = "bind_extensions"
  /\ idx' = 1
  /\ UNCHANGED <<fileVars, ctxVars, bindVars, extLog>>
  /\ UNCHANGED <<hasTopLevelCode, currentFunctionIdx, currentExternalDef,
                 previousFunctionIdx, loopN, loopI>>
  /\ nameBound' = TRUE
  /\ lastGate' = NoGate
  /\ firstPassed' = {}
  /\ secondPassed' = {}
  /\ UNCHANGED <<litVars, sealVars>>

\* `if (SF.ASTStage == SourceFile::TypeChecked) return;' on a later call
PerformTypeCheckingAgain ==
  /\ pc = "done"
  /\ ASTStage = "TypeChecked"
  /\ UNCHANGED vars

\* llvm::makeArrayRef(SF.Decls).slice(StartElem): the first declaration
\* of the slice
sliceStart_skipsOne == StartElem + 2
sliceStart == StartElem + 1

\* TC.validateDecl of a declaration in state `state'
validated(state) ==
  IF state = "unchecked" THEN Outcomes(state) ELSE {state}

\* The inheritance lists the extension loop may read on a declaration:
\* the gate is asked about extensions and nominal types only
inheritedOf(kind) ==
  IF kind \in {"extension", "nominal"} THEN InheritedLists ELSE {<<>>}

\* One declaration of the extension loop (lines 434-444)
BindExtensionsStep ==
  /\ pc = "bind_extensions"
  /\ idx <= Len(Decls)
  /\ \E inherited \in inheritedOf(Decls[idx]) :
       LET gate == mayConformToKnownProtocol(inherited)
           visited(called) == [decl |-> idx, inherited |-> inherited,
                               gate |-> gate, validated |-> called]
       IN
       IF Decls[idx] = "extension" THEN
         /\ BindCall(idx)
         /\ IF /\ gate
               /\ getAnyNominal(ExtOf'[idx].ExtendedType) # NoTypeDecl
            THEN /\ \E e \in DeferringEffects :
                      Appends(0, e, declState, ValidatedTypes)
                 /\ lastGate' = visited(TRUE)
            ELSE /\ Appends(0, NoEffect, declState, ValidatedTypes)
                 /\ lastGate' = visited(FALSE)
       ELSE IF Decls[idx] = "nominal" /\ gate
       THEN /\ \E e \in DeferringEffects, result \in validated(declState[idx]) :
                 Appends(0, e, [declState EXCEPT ![idx] = result],
                         ValidatedTypes)
            /\ lastGate' = visited(TRUE)
            /\ UNCHANGED <<ExtOf, bindVars>>
       ELSE /\ Appends(0, NoEffect, declState, ValidatedTypes)
            /\ lastGate' = visited(FALSE)
            /\ UNCHANGED <<ExtOf, bindVars>>
  /\ idx' = idx + 1
  /\ UNCHANGED <<Decls, ASTStage, StartElem>>
  /\ UNCHANGED <<LastCheckedExternalDefinition, logVars>>
  /\ UNCHANGED <<pc, caller, hasTopLevelCode, currentFunctionIdx,
                 currentExternalDef, previousFunctionIdx, loopN, loopI>>
  /\ UNCHANGED <<litVars, sealVars, nameBound, firstPassed, secondPassed>>

\* The extension loop ends; the first pass starts at StartElem
BindExtensionsDone ==
  /\ pc = "bind_extensions"
  /\ idx > Len(Decls)
  /\ pc' = "first_pass"
  /\ idx' = sliceStart
  /\ UNCHANGED <<fileVars, ctxVars, bindVars, tcVars, logVars>>
  /\ UNCHANGED <<caller, hasTopLevelCode, currentFunctionIdx,
                 currentExternalDef, previousFunctionIdx, loopN, loopI>>
  /\ lastGate' = NoGate
  /\ UNCHANGED <<litVars, sealVars, nameBound, firstPassed, secondPassed>>

\* One declaration of the first pass (lines 451-456)
FirstPassStep ==
  /\ pc = "first_pass"
  /\ idx <= Len(Decls)
  /\ IF Decls[idx] = "tlc"
     THEN Appends(0, NoEffect, declState, ValidatedTypes)
     ELSE \E e \in DeferringEffects, result \in Outcomes(declState[idx]) :
            Appends(0, e, [declState EXCEPT ![idx] = result], ValidatedTypes)
  /\ idx' = idx + 1
  /\ UNCHANGED <<Decls, ExtOf, ASTStage, StartElem>>
  /\ UNCHANGED <<LastCheckedExternalDefinition, bindVars, logVars>>
  /\ UNCHANGED <<pc, caller, hasTopLevelCode, currentFunctionIdx,
                 currentExternalDef, previousFunctionIdx, loopN, loopI>>
  /\ firstPassed' = IF Decls[idx] = "tlc" THEN firstPassed
                     ELSE firstPassed \cup {idx}
  /\ UNCHANGED <<litVars, sealVars, lastGate, nameBound, secondPassed>>

\* The first pass ends; `bool hasTopLevelCode = false;'
FirstPassDone ==
  /\ pc = "first_pass"
  /\ idx > Len(Decls)
  /\ pc' = "second_pass"
  /\ idx' = sliceStart
  /\ hasTopLevelCode' = FALSE
  /\ UNCHANGED <<fileVars, ctxVars, bindVars, tcVars, logVars>>
  /\ UNCHANGED <<caller, currentFunctionIdx, currentExternalDef,
                 previousFunctionIdx, loopN, loopI>>
  /\ UNCHANGED helperVars

\* definedFunctions after the second pass of declaration d: a function
\* declaration is queued for its body check
seeded(d) ==
  IF Decls[d] = "func"
  THEN Append(definedFunctions, [id |-> d, parent |-> 0])
  ELSE definedFunctions

\* One declaration of the second pass (lines 465-473)
SecondPassStep ==
  /\ pc = "second_pass"
  /\ idx <= Len(Decls)
  /\ \E e \in QueueingEffects, result \in Outcomes(declState[idx]) :
       LET base == Len(declState) IN
       /\ definedFunctions' = seeded(idx) \o
            [k \in 1..e.fns |-> [id |-> base + k, parent |-> 0]]
       /\ implicitlyDefinedFunctions' = implicitlyDefinedFunctions \o
            [k \in 1..e.impl |-> [id |-> base + e.fns + k, parent |-> 0]]
       /\ ValidatedTypes' = ValidatedTypes \o
            [k \in 1..e.types |-> base + e.fns + e.impl + k]
       /\ ExternalDefinitions' = ExternalDefinitions \o e.exts
       /\ declState' = [declState EXCEPT ![idx] = result] \o
            [k \in 1..(e.fns + e.impl + e.types) |-> "unchecked"]
  /\ hasTopLevelCode' = (hasTopLevelCode \/ Decls[idx] = "tlc")
  /\ idx' = idx + 1
  /\ UNCHANGED <<Decls, ExtOf, ASTStage, StartElem>>
  /\ UNCHANGED <<LastCheckedExternalDefinition, bindVars, logVars>>
  /\ UNCHANGED <<pc, caller, currentFunctionIdx, currentExternalDef,
                 previousFunctionIdx, loopN, loopI>>
  /\ secondPassed' = secondPassed \cup {idx}
  /\ UNCHANGED <<litVars, sealVars, lastGate, nameBound, firstPassed>>

\* The second pass ends: contextualizeTopLevelCode, then the staged
\* functions are moved (lines 475-483) and the scheduler is called
SecondPassDone ==
  /\ pc = "second_pass"
  /\ idx > Len(Decls)
  /\ moveImplicitFunctions
  /\ pc' = "scheduler"
  /\ UNCHANGED <<fileVars, ctxVars, bindVars, ValidatedTypes, logVars>>
  /\ UNCHANGED <<caller, idx, hasTopLevelCode, currentFunctionIdx,
                 currentExternalDef, previousFunctionIdx, loopN, loopI>>
  /\ UNCHANGED helperVars

\* The scheduler returned to performTypeChecking:
\* SF.ASTStage = SourceFile::TypeChecked
MarkTypeChecked ==
  /\ pc = "scheduler_returned"
  /\ caller = "performTypeChecking"
  /\ ASTStage' = "TypeChecked"
  /\ pc' = "done"
  /\ UNCHANGED <<Decls, ExtOf, StartElem, declState>>
  /\ UNCHANGED <<ctxVars, bindVars, tcVars, logVars>>
  /\ UNCHANGED <<caller, idx, hasTopLevelCode, currentFunctionIdx,
                 currentExternalDef, previousFunctionIdx, loopN, loopI>>
  /\ UNCHANGED helperVars

Driver ==
  \/ PerformTypeChecking
  \/ PerformTypeCheckingAgain
  \/ BindExtensionsStep
  \/ BindExtensionsDone
  \/ FirstPassStep
  \/ FirstPassDone
  \/ SecondPassStep
  \/ SecondPassDone
  \/ MarkTypeChecked

Next == Driver \/ Scheduler

Spec == Init /\ [][Next]_vars

\* The runs followed to their end: files of at most one declaration, all
\* of whose work is discovered while checking
InitFair == Init /\ Len(Decls) <= Cardinality({"only"})

\* The program is sequential and keeps running: a step that can be taken
\* is taken
FairSpec == InitFair /\ [][Next]_vars /\ WF_vars(Next)

(***************************************************************************)
(* swift::typeCheckExternalDefinitions: the scheduler run again on a file  *)
(* that is type-checked, for the definitions imported since the last run.  *)
(***************************************************************************)

\* Between two runs a module loader appends to ExternalDefinitions
ImportExternalDefinitions ==
  /\ pc = "done"
  /\ created < MaxNew
  /\ \E exts \in SeqsOf(ImportedKinds, 1, Min(MaxNew - created, MaxPerCall)) :
       ExternalDefinitions' = ExternalDefinitions \o exts
  /\ UNCHANGED <<fileVars, LastCheckedExternalDefinition, bindVars, tcVars>>
  /\ UNCHANGED <<localVars, logVars, helperVars>>

\* assert(SF.ASTStage == SourceFile::TypeChecked); TypeChecker TC(Ctx);
\* typeCheckFunctionsAndExternalDecls(TC)
TypeCheckExternalDefinitions ==
  /\ pc = "done"
  /\ ASTStage = "TypeChecked"
  /\ definedFunctions' = <<>>
  /\ implicitlyDefinedFunctions' = <<>>
  /\ ValidatedTypes' = <<>>
  /\ bodyLog' = <<>>
  /\ captureLog' = <<>>
  /\ caller' = "typeCheckExternalDefinitions"
  /\ pc' = "scheduler"
  /\ UNCHANGED <<fileVars, ctxVars, bindVars, extLog>>
  /\ UNCHANGED <<idx, hasTopLevelCode, currentFunctionIdx, currentExternalDef,
                 previousFunctionIdx, loopN, loopI>>
  /\ UNCHANGED helperVars

\* The scheduler returned to typeCheckExternalDefinitions, which returns
ExternalDefinitionsChecked ==
  /\ pc = "scheduler_returned"
  /\ caller = "typeCheckExternalDefinitions"
  /\ pc' = "done"
  /\ UNCHANGED <<fileVars, ctxVars, bindVars, tcVars, logVars>>
  /\ UNCHANGED <<caller, idx, hasTopLevelCode, currentFunctionIdx,
                 currentExternalDef, previousFunctionIdx, loopN, loopI>>
  /\ UNCHANGED helperVars

LaterRuns ==
  \/ ImportExternalDefinitions
  \/ TypeCheckExternalDefinitions
  \/ ExternalDefinitionsChecked
  \/ UnhandledExternalStep

NextRuns == Next \/ LaterRuns

\* performTypeChecking on a file of at most one declaration, then any
\* number of typeCheckExternalDefinitions calls on the same context
SpecRuns == InitFair /\ [][NextRuns]_vars

(***************************************************************************)
(* Properties of the extension binder, checked under SpecBind.             *)
(***************************************************************************)

\* The last call entered the component walk
walkRan == lastBind.path \in {"arity_mismatch", "non_nominal", "bound"}

\* The components the last call started from
refsBefore == lastBind.before.RefComponents

\* The number of diagnostics of kind `kind' the last call emitted at `at'
emittedAt(kind, at) ==
  Cardinality({k \in DOMAIN lastBind.emitted :
                 lastBind.emitted[k] = Diag(kind, at)})

\* C6: once bindExtensionDecl has returned, whatever the path, the
\* extension's extended type is set, and it is the error type exactly when
\* the binder has marked the extension invalid.
C6_ExtendedTypeSetOnReturn ==
  numCalls > 0 =>
    /\ ED.ExtendedType # NullType
    /\ (ED.ExtendedType = ErrorType) <=> ED.Invalid

\* C6 witness: a call has returned through a failing path of the walk
C6_Witness ==
  /\ numCalls > 0
  /\ lastBind.path = "arity_mismatch"
  /\ ED.Invalid
  /\ ED.ExtendedType = ErrorType

\* Component i of the last call supplied one generic parameter and names a
\* non-generic nominal type, and the walk visited it
oneParamOnNonGeneric(i) ==
  /\ walkRan
  /\ i \in DOMAIN refsBefore
  /\ i <= Len(lastBind.steps)
  /\ refsBefore[i].GenericParams = 1
  /\ refsBefore[i].Decl # NoTypeDecl
  /\ getGenericParams(refsBefore[i].Decl) = 0

\* C7 as the claim states it: a component with one generic parameter on a
\* non-generic nominal type yields exactly one diagnostic about the
\* parameter count (the note that points at the type is not counted), an
\* invalid extension and the error type as its extended type.
C7_AsClaimed ==
  \A i \in 1..MaxComponents :
    oneParamOnNonGeneric(i) =>
      /\ emittedAt("extension_generic_params_for_non_generic_type", i)
           + emittedAt("extension_generic_wrong_number_of_parameters", i) = 1
      /\ ED.Invalid
      /\ ED.ExtendedType = ErrorType

\* C7 as amended: such a component yields exactly one
\* extension_generic_params_for_non_generic_type diagnostic and its
\* extended_type_here note, loses its generic parameters, and does not
\* invalidate the extension: the extension ends invalid only when another
\* component has mismatched counts or the resolved type is not nominal, and
\* a single-component extension of this kind is bound to the nominal type.
C7_DroppedNotInvalidated ==
  \A i \in 1..MaxComponents :
    oneParamOnNonGeneric(i) =>
      /\ emittedAt("extension_generic_params_for_non_generic_type", i) = 1
      /\ emittedAt("extended_type_here", i) = 1
      /\ emittedAt("extension_generic_wrong_number_of_parameters", i) = 0
      /\ ED.RefComponents[i].GenericParams = 0
      /\ ED.Invalid <=> lastBind.path \in {"arity_mismatch", "non_nominal"}
      /\ lastBind.path = "arity_mismatch" => lastBind.mismatchAt # i
      /\ Len(refsBefore) = 1 =>
           /\ ~ED.Invalid
           /\ ED.ExtendedType = getDeclaredType(refsBefore[1].Decl)
           /\ Extensions[refsBefore[1].Decl] = <<1>>

\* C7 witness: a single-component extension with one parameter on a
\* non-generic nominal type has been bound
C7_Witness ==
  /\ oneParamOnNonGeneric(1)
  /\ Len(refsBefore) = 1
  /\ lastBind.path = "bound"

\* Component i has generic parameters on both sides, with differing counts
differingCounts(refs, i) ==
  /\ refs[i].Decl # NoTypeDecl
  /\ refs[i].GenericParams # 0
  /\ getGenericParams(refs[i].Decl) # 0
  /\ refs[i].GenericParams # getGenericParams(refs[i].Decl)

\* Component i has generic parameters that the walk must drop
mustDrop(refs, i) ==
  /\ refs[i].GenericParams # 0
  /\ \/ refs[i].Decl = NoTypeDecl
     \/ getGenericParams(refs[i].Decl) = 0

\* C8: the walk invalidates the extension (error type) if and only if some
\* component has generic parameters on both sides with differing counts,
\* and it stops at the first such component; a component whose parameters
\* sit on no nominal type or on a non-generic one loses them with a
\* diagnostic, the walk goes on to the next component, and that component
\* does not invalidate the extension.
C8_OnlyMismatchInvalidates ==
  walkRan =>
    LET refs == refsBefore
        bad == {i \in DOMAIN refs : differingCounts(refs, i)}
        first == CHOOSE i \in bad : \A j \in bad : i <= j
        visited == Len(lastBind.steps)
    IN
    /\ (lastBind.path = "arity_mismatch") <=> (bad # {})
    /\ bad # {} =>
         /\ lastBind.mismatchAt = first
         /\ visited = first
         /\ ED.Invalid /\ ED.ExtendedType = ErrorType
         /\ emittedAt("extension_generic_wrong_number_of_parameters", first) = 1
         /\ \A j \in DOMAIN refs : j > first => ED.RefComponents[j] = refs[j]
    /\ bad = {} =>
         /\ visited = Len(refs)
         /\ ED.Invalid <=> lastBind.path = "non_nominal"
    /\ \A i \in DOMAIN refs :
         (i <= visited /\ mustDrop(refs, i)) =>
           /\ ED.RefComponents[i].GenericParams = 0
           /\ emittedAt(IF refs[i].Decl = NoTypeDecl
                        THEN "extension_generic_params_for_non_generic"
                        ELSE "extension_generic_params_for_non_generic_type",
                        i) = 1
           /\ lastBind.mismatchAt # i
           /\ i < Len(refs) => visited > i

\* C8 witness: the walk dropped the parameters of its first component, went
\* on, and stopped at a second component with mismatched counts
C8_Witness ==
  /\ lastBind.path = "arity_mismatch"
  /\ lastBind.mismatchAt = 2
  /\ mustDrop(refsBefore, 1)
  /\ ED.RefComponents[1].GenericParams = 0

\* The nearest component before i that kept its generic parameters, 0 when
\* there is none
nearestKept(refs, i) ==
  LET kept == {j \in 1..(i - 1) : refs[j].GenericParams # 0} IN
  IF kept = {} THEN 0 ELSE CHOOSE j \in kept : \A k \in kept : k <= j

\* C9: a single-component extension with 2 generic parameters on a nominal
\* type with 2 generic parameters binds: not invalid, extended type the
\* resolved type, the component's list has 2 parameters and no outer list.
\* After any walk that ran to its end, every component that kept its
\* parameters has as outer list the list of the nearest earlier component
\* that kept its parameters, or none.
C9_ChainedParameterLists ==
  /\ ( /\ lastBind.path \notin {"none", "already_bound", "validate_failed"}
       /\ Len(refsBefore) = 1
       /\ refsBefore[1].GenericParams = 2
       /\ refsBefore[1].Decl # NoTypeDecl
       /\ getGenericParams(refsBefore[1].Decl) = 2 )
     => /\ lastBind.path = "bound"
        /\ ~ED.Invalid
        /\ ED.ExtendedType = getDeclaredType(refsBefore[1].Decl)
        /\ ED.RefComponents[1].GenericParams = 2
        /\ ED.RefComponents[1].Outer = 0
  /\ lastBind.path \in {"bound", "non_nominal"} =>
       \A i \in DOMAIN ED.RefComponents :
         ED.RefComponents[i].GenericParams # 0 =>
           ED.RefComponents[i].Outer = nearestKept(ED.RefComponents, i)

\* C9 witness: a two-component extension whose first component lost its
\* parameters and whose second kept two of them has been bound
C9_Witness ==
  /\ lastBind.path = "bound"
  /\ Len(refsBefore) = 2
  /\ mustDrop(refsBefore, 1)
  /\ ED.RefComponents[2].GenericParams = 2
  /\ ED.RefComponents[2].Outer = 0

\* C10: a call on an extension whose extended type is already set, to a
\* type or to the error type, changes nothing of the extension, emits no
\* diagnostic and registers the extension nowhere.
C10_Idempotent ==
  [][(numCalls' = numCalls + 1 /\ ED.ExtendedType # NullType) =>
       /\ ED' = ED
       /\ Diags' = Diags
       /\ Extensions' = Extensions
       /\ lastBind'.path = "already_bound"]_vars

\* C10 witness: a second call has returned on an extension that an earlier
\* call had left invalid with the error type
C10_Witness ==
  /\ numCalls >= 2
  /\ lastBind.path = "already_bound"
  /\ lastBind.before.ExtendedType = ErrorType
  /\ ED = lastBind.before

(***************************************************************************)
(* Properties of the scheduler and of the driver, checked under Spec.      *)
(***************************************************************************)

\* The do-while loop of the scheduler has been left
schedulerLeft == pc \in {"scheduler_exit", "scheduler_returned"}

\* Number of times x occurs in the sequence log
occurrences(log, x) == Cardinality({k \in DOMAIN log : log[k] = x})

\* The position of definedFunctions index x in captureLog, 0 when absent
capturePosition(x) ==
  IF \E k \in DOMAIN captureLog : captureLog[k] = x
  THEN CHOOSE k \in DOMAIN captureLog : captureLog[k] = x
  ELSE 0

\* C1: when typeCheckFunctionsAndExternalDecls leaves its loop and returns,
\* both cursors equal the lengths of their sequences, ValidatedTypes is
\* empty and implicitlyDefinedFunctions is empty, whatever was appended.
C1_NoWorkLeftOnReturn ==
  schedulerLeft =>
    /\ currentFunctionIdx = Len(definedFunctions)
    /\ currentExternalDef = Len(ExternalDefinitions)
    /\ ValidatedTypes = <<>>
    /\ implicitlyDefinedFunctions = <<>>

\* C1 witness: the scheduler has returned from a run in which functions and
\* an external definition were appended
C1_Witness ==
  /\ pc = "scheduler_returned"
  /\ Len(declState) > Len(Decls)
  /\ Len(definedFunctions) >= 2
  /\ Len(ExternalDefinitions) >= 1

\* C2: when the scheduler leaves its loop, every entry of definedFunctions
\* has had its body checked exactly once and its captures computed exactly
\* once, and every ExternalDefinitions entry from the starting cursor on
\* has been processed exactly once (and none before it), also in runs
\* where a check failed.
C2_EveryItemExactlyOnce ==
  pc = "scheduler_exit" =>
    /\ \A f \in 0..(Len(definedFunctions) - 1) :
         /\ occurrences(bodyLog, f) = 1
         /\ occurrences(captureLog, f) = 1
    /\ Len(bodyLog) = Len(definedFunctions)
    /\ Len(captureLog) = Len(definedFunctions)
    /\ \A x \in 0..(Len(ExternalDefinitions) - 1) :
         Cardinality({k \in DOMAIN extLog : extLog[k].index = x}) =
           IF x >= LastCheckedExternalDefinition THEN 1 ELSE 0

\* C2 witness: the loop has been left after a run in which a check failed
\* and in which a function was moved in from implicitlyDefinedFunctions
C2_Witness ==
  /\ pc = "scheduler_exit"
  /\ \E d \in DOMAIN declState : d > Len(Decls) /\ declState[d] = "invalid"
  /\ Len(definedFunctions) >= 2
  /\ Len(ExternalDefinitions) >= 1

\* C3: for F whose body check appends G, whose body check appends H, the
\* captures of H are computed before those of G, and those of G before
\* those of F.
C3_NestedCapturesFirst ==
  pc = "scheduler_exit" =>
    \A f, g, h \in DOMAIN definedFunctions :
      ( /\ definedFunctions[g].parent = definedFunctions[f].id
        /\ definedFunctions[h].parent = definedFunctions[g].id )
      => /\ capturePosition(h - 1) < capturePosition(g - 1)
         /\ capturePosition(g - 1) < capturePosition(f - 1)

\* C4: with finitely many items appended, a scheduler that has been
\* entered leaves its do-while loop and returns.
C4_SchedulerTerminates ==
  (pc = "scheduler") ~> (pc = "scheduler_returned")

\* C4 witness: the scheduler has returned after all the items the
\* collaborators may append were appended and after more than one
\* iteration of the loop
C4_Witness ==
  /\ pc = "scheduler_returned"
  /\ created = MaxNew
  /\ \E f \in DOMAIN definedFunctions : definedFunctions[f].parent # 0

\* C5: once performTypeChecking has set the stage to TypeChecked, every
\* declaration of the file, top-level or discovered while checking, is
\* valid or invalid.
C5_AllDeclsTerminal ==
  ASTStage = "TypeChecked" =>
    \A d \in DOMAIN declState : declState[d] \in {"valid", "invalid"}

\* C5 witness: the file is TypeChecked and holds a top-level declaration,
\* a nested function, a synthesized function or a deferred nominal type
C5_Witness ==
  /\ ASTStage = "TypeChecked"
  /\ Len(Decls) >= 1
  /\ StartElem < Len(Decls)
  /\ Len(declState) >= Len(Decls) + 2
  /\ \E f \in DOMAIN definedFunctions : definedFunctions[f].parent # 0

(***************************************************************************)
(* Registration of extensions, checked under SpecBind.                     *)
(***************************************************************************)

\* The binding of extension d succeeded and its type denotes typeDecl
boundTo(d, typeDecl) ==
  /\ ~ExtOf[d].Invalid
  /\ isNominalOrUnbound(ExtOf[d].ExtendedType)
  /\ ExtOf[d].ExtendedType.decl = typeDecl

\* s is a prefix of t
isPrefix(s, t) == Len(s) <= Len(t) /\ SubSeq(t, 1, Len(s)) = s

\* Extension d is in the list of typeDecl exactly when it is bound to it,
\* and then once
registeredIffBound ==
  \A d \in DOMAIN ExtOf, typeDecl \in NominalTypeDecls :
    occurrences(Extensions[typeDecl], d) =
      IF boundTo(d, typeDecl) THEN 1 ELSE 0

\* A call that found a resolved type of another kind diagnosed it,
\* invalidated the extension and registered it nowhere
nonNominalRejected ==
  lastBind.path = "non_nominal" =>
    /\ Len(lastBind.emitted) >= 1
    /\ lastBind.emitted[Len(lastBind.emitted)] =
         Diag("non_nominal_extension", 0)
    /\ ED.Invalid
    /\ ED.ExtendedType = ErrorType
    /\ \A typeDecl \in NominalTypeDecls : occurrences(Extensions[typeDecl], 1) = 0

\* C11: after any sequence of bindExtensionDecl calls an extension is in a
\* nominal type's extension list iff its binding succeeded and its type
\* denotes that nominal, and at most once; an extension resolved to a type
\* of another kind is diagnosed, invalid, of error type and registered
\* nowhere; extension lists only grow.
C11_RegisteredIffBound ==
  /\ [](registeredIffBound /\ nonNominalRejected)
  /\ [][\A typeDecl \in NominalTypeDecls :
          isPrefix(Extensions[typeDecl], Extensions'[typeDecl])]_vars

\* C11 witness: a bound extension was bound a second time and is
\* registered once on its nominal type
C11_Witness ==
  /\ numCalls >= 2
  /\ lastBind.path = "already_bound"
  /\ \E typeDecl \in NominalTypeDecls :
       boundTo(1, typeDecl) /\ Extensions[typeDecl] = <<1>>

(***************************************************************************)
(* Properties of the literal resolver, checked under SpecLiteral.          *)
(***************************************************************************)

\* A getLiteralProtocol call has been made
lookedUp == numLookups > 0

\* The table of required capabilities, by literal kind
tableCapability(expr) ==
  CASE expr.class = "NilLiteralExpr" -> "NilLiteralConvertible"
    [] expr.class = "IntegerLiteralExpr" -> "IntegerLiteralConvertible"
    [] expr.class = "FloatLiteralExpr" -> "FloatLiteralConvertible"
    [] expr.class = "BooleanLiteralExpr" -> "BooleanLiteralConvertible"
    [] expr.class = "CharacterLiteralExpr" -> "CharacterLiteralConvertible"
    [] expr.class = "StringLiteralExpr" /\ expr.single ->
         "ExtendedGraphemeClusterLiteralConvertible"
    [] expr.class = "StringLiteralExpr" /\ ~expr.single ->
         "StringLiteralConvertible"
    [] expr.class = "InterpolatedStringLiteralExpr" ->
         "StringInterpolationConvertible"
    [] expr.class = "ArrayExpr" -> "ArrayLiteralConvertible"
    [] expr.class = "DictionaryExpr" -> "DictionaryLiteralConvertible"
    [] expr.class = "MagicIdentifierLiteralExpr"
         /\ expr.magic \in {"File", "Function"} -> "StringLiteralConvertible"
    [] expr.class = "MagicIdentifierLiteralExpr"
         /\ expr.magic \in {"Line", "Column"} -> "IntegerLiteralConvertible"
    [] OTHER -> NoProtocol

\* Every capability was in the registry when the last call was made
allPresent == \A k \in KnownProtocolKind : litLast.before[k] # "absent"

\* C12 as claimed: with every capability present in the registry,
\* getLiteralProtocol returns the capability of the table for every
\* expression kind, and none for a non-literal expression.
C12_AsClaimed ==
  (lookedUp /\ allPresent) => litLast.protocol = tableCapability(litLast.expr)

\* C12: with every capability present in the registry, getLiteralProtocol
\* returns the capability of the table for every expression kind, and none
\* for a non-literal expression, unless the capability's declaration had no
\* type when looked up and is invalid after its validation: then it
\* returns none.
C12_MatchesTable ==
  (lookedUp /\ allPresent) =>
    /\ litLast.asked = tableCapability(litLast.expr)
    /\ litLast.protocol =
         IF /\ litLast.asked # NoProtocol
            /\ hasNoType(litLast.before[litLast.asked])
            /\ isInvalid(litRegistry[litLast.asked])
         THEN NoProtocol
         ELSE tableCapability(litLast.expr)

\* C12 witness: the magic line literal was looked up in a registry holding
\* every capability and IntegerLiteralConvertible was returned
C12_Witness ==
  /\ lookedUp
  /\ allPresent
  /\ litLast.expr.class = "MagicIdentifierLiteralExpr"
  /\ litLast.expr.magic = "Line"
  /\ litLast.protocol = "IntegerLiteralConvertible"

\* The capability the last call required was absent from the registry
requiredAbsent ==
  /\ lookedUp
  /\ litLast.asked # NoProtocol
  /\ litLast.before[litLast.asked] = "absent"

\* C13 as claimed: a lookup of an absent capability emits exactly one
\* missing-capability diagnostic and returns none.
C13_AsClaimed ==
  requiredAbsent =>
    /\ litLast.protocol = NoProtocol
    /\ Len(litLast.emitted) = 1

\* C13: a lookup of an absent capability returns none; it emits exactly
\* one missing_protocol diagnostic naming the capability when the
\* expression's location is valid and no diagnostic when it is not, and
\* the registry is left as it was.
C13_OneDiagnosticAtValidLoc ==
  requiredAbsent =>
    /\ litLast.protocol = NoProtocol
    /\ litLast.emitted =
         IF litLast.expr.locValid
         THEN <<[kind |-> "missing_protocol", name |-> litLast.asked]>>
         ELSE <<>>
    /\ litRegistry = litLast.before

\* C13 witness: two lookups of the absent capability at valid locations
\* have emitted two diagnostics
C13_Witness ==
  /\ requiredAbsent
  /\ litLast.expr.locValid
  /\ numLookups = 2
  /\ Len(litDiags) = 2

(***************************************************************************)
(* Properties of the sealing walker, checked under SpecSeal.               *)
(***************************************************************************)

\* The walker reached addFinal on the declaration it visited
sealApplied == pc = "sealing_done" /\ sealLast.outcome.addFinal

\* C14: the walker never reaches addFinal on a member with public
\* accessibility, and reaches it on a member with internal accessibility
\* only in whole-module compilation.
C14_VisibilityGate ==
  sealApplied =>
    /\ sealLast.decl.access # "Public"
    /\ sealLast.decl.access = "Internal" => WholeModComp

\* C14 witness: an internal member was sealed in whole-module compilation
C14_Witness ==
  /\ sealApplied
  /\ sealLast.decl.access = "Internal"
  /\ WholeModComp

\* C15: the walker never reaches addFinal on a setter whose storage
\* declaration is not final when the setter is visited.
C15_SetterCarveOut ==
  (sealApplied /\ sealLast.decl.kind = "Setter") => sealLast.decl.storageFinal

\* C15 witness: a setter that could otherwise be sealed was held back
\* because its storage declaration is not final
C15_Witness ==
  /\ pc = "sealing_done"
  /\ sealLast.decl.kind = "Setter"
  /\ ~sealLast.decl.storageFinal
  /\ sealLast.outcome.exit = "setter"
  /\ ~sealLast.outcome.addFinal

\* C16: a declaration with an implicit dynamic attribute is sealed only if
\* no declaration up its override chain carries a written dynamic
\* attribute, whatever the markers between them.
C16_NoExplicitDynamicAncestor ==
  (sealApplied /\ sealLast.decl.chain[1] = "implicit") =>
    \A i \in DOMAIN sealLast.decl.chain : sealLast.decl.chain[i] # "explicit"

\* The declaration visited is an AbstractStorageDecl or an
\* AbstractFunctionDecl other than a constructor or a destructor
storageOrFunction ==
  sealLast.decl.kind \in {"Storage", "Func", "Getter", "Setter"}

\* The declaration visited is a ValueDecl other than a constructor or a
\* destructor that is final, invalid or without accessibility
settledValue ==
  /\ sealLast.decl.kind \notin {"NonValue", "Constructor", "Destructor"}
  /\ \/ sealLast.decl.isFinal
     \/ sealLast.decl.isInvalid
     \/ ~sealLast.decl.hasAccessibility

dynamicRemoved == pc = "sealing_done" /\ sealLast.outcome.removeDynamic

\* The declaration visited passed the gates of lines 602-632: visibility,
\* not overridden, inside a class and, for a setter, final storage
passedSealingGates ==
  /\ sealLast.decl.access # "Public"
  /\ sealLast.decl.access = "Internal" => WholeModComp
  /\ ~sealLast.decl.isOverridden
  /\ sealLast.decl.inClass
  /\ sealLast.decl.kind = "Setter" => sealLast.decl.storageFinal

\* The frame part of C23: the attribute removed was an implicit one, the
\* declaration passed every gate and was sealed
removedOnlyWhenSealed ==
  dynamicRemoved =>
    /\ sealLast.decl.chain[1] = "implicit"
    /\ passedSealingGates
    /\ sealLast.outcome.addFinal

\* C23: the walker removes a dynamic attribute only if it is implicit on
\* the declaration and no declaration up its override chain carries a
\* written one, and only from a declaration that passed every sealing
\* gate; a written attribute is never removed and a declaration that is
\* not sealed keeps its attribute.
C23_RemovesOnlyInferredDynamic ==
  /\ removedOnlyWhenSealed
  /\ dynamicRemoved =>
       \A i \in DOMAIN sealLast.decl.chain :
         sealLast.decl.chain[i] # "explicit"

(***************************************************************************)
(* Properties of the conformance gate and of the order of the driver's     *)
(* phases, checked under Spec.                                             *)
(***************************************************************************)

\* A declaration of the extension loop has just been visited
gateVisited == pc = "bind_extensions" /\ lastGate.decl # 0

\* The entry is an identifier type whose last component is a simple
\* identifier spelled exactly as a known protocol
namesKnownProtocol(entry) ==
  /\ entry.ident
  /\ entry.simple
  /\ entry.name \in
       {"ArrayLiteralConvertible", "DictionaryLiteralConvertible",
        "NilLiteralConvertible", "IntegerLiteralConvertible",
        "FloatLiteralConvertible", "BooleanLiteralConvertible",
        "CharacterLiteralConvertible",
        "ExtendedGraphemeClusterLiteralConvertible",
        "StringLiteralConvertible", "StringInterpolationConvertible"}

\* C17: mayConformToKnownProtocol answers true iff some written
\* inheritance entry is an identifier type whose last component is a
\* simple identifier spelled exactly as a known protocol; in the extension
\* loop validateDecl is called on a nominal declaration only when the gate
\* answered true for it, and on an extension's target only when the gate
\* answered true for the extension and the extension is bound to a nominal
\* type, never when it is bound to the error type; no other declaration is
\* validated there.
C17_GateDecidesEagerValidation ==
  gateVisited =>
    /\ lastGate.gate <=>
         \E k \in DOMAIN lastGate.inherited :
           namesKnownProtocol(lastGate.inherited[k])
    /\ lastGate.validated =>
         /\ lastGate.gate
         /\ Decls[lastGate.decl] \in {"nominal", "extension"}
         /\ Decls[lastGate.decl] = "extension" =>
              /\ ExtOf[lastGate.decl].ExtendedType # ErrorType
              /\ isNominalOrUnbound(ExtOf[lastGate.decl].ExtendedType)

\* C17 witness: the gate answered true on the second entry of an
\* extension's inheritance list, the first not matching, and the
\* extension's nominal type was validated
C17_Witness ==
  /\ gateVisited
  /\ Decls[lastGate.decl] = "extension"
  /\ Len(lastGate.inherited) = 2
  /\ ~namesKnownProtocol(lastGate.inherited[1])
  /\ lastGate.inherited[1].name = "integerliteralconvertible"
  /\ lastGate.gate
  /\ lastGate.validated

\* The declarations of the file from StartElem on
unitDecls == (StartElem + 1)..Len(Decls)

\* Every extension of the visible files has been through bindExtensionDecl
allExtensionsBound ==
  \A d \in DOMAIN Decls :
    Decls[d] = "extension" => ExtOf[d].ExtendedType # NullType

\* The first pass has checked every declaration of the unit that is not
\* top-level code
firstPassComplete ==
  firstPassed = {d \in unitDecls : Decls[d] # "tlc"}

\* The states of the scheduler called by performTypeChecking
inScheduler ==
  pc \in {"scheduler", "external_for", "function_for", "capture_for",
          "validated_while", "do_while", "scheduler_exit",
          "scheduler_returned"}

\* The order of the phases as it shows in a state
phasesInOrder ==
  /\ pc # "performTypeChecking" => nameBound
  /\ firstPassed # {} => allExtensionsBound
  /\ secondPassed # {} => firstPassComplete
  /\ inScheduler =>
       /\ allExtensionsBound
       /\ firstPassComplete
       /\ secondPassed = unitDecls
  /\ ASTStage = "TypeChecked" =>
       /\ pc = "done"
       /\ firstPassComplete
       /\ secondPassed = unitDecls
       /\ currentFunctionIdx = Len(definedFunctions)
       /\ currentExternalDef = Len(ExternalDefinitions)
       /\ LastCheckedExternalDefinition = Len(ExternalDefinitions)

\* The order of the phases as it shows in a step
phaseStep ==
  /\ (pc' = "scheduler" /\ pc # "scheduler") =>
       /\ pc = "second_pass"
       /\ implicitlyDefinedFunctions' = <<>>
       /\ definedFunctions' = definedFunctions \o implicitlyDefinedFunctions
  /\ (ASTStage' = "TypeChecked" /\ ASTStage # "TypeChecked") =>
       pc = "scheduler_returned"
  /\ firstPassed' # firstPassed => pc = "first_pass"
  /\ secondPassed' # secondPassed =>
       pc = "second_pass" \/ (pc = "performTypeChecking" /\ secondPassed' = {})

\* C18: performTypeChecking binds names, then binds every extension, then
\* runs the first pass over the declarations from StartElem on that are
\* not top-level code, then the second pass over all of them, then moves
\* the staged implicit functions and runs the scheduler to its fixed point,
\* and only then marks the file TypeChecked.
C18_PhasesInOrder == []phasesInOrder /\ [][phaseStep]_vars

\* C18 witness: a file with an extension, and an unchecked declaration
\* after it, has gone through all phases and is TypeChecked
C18_Witness ==
  /\ ASTStage = "TypeChecked"
  /\ nameBound
  /\ \E d \in DOMAIN Decls : Decls[d] = "extension"
  /\ firstPassed # {}
  /\ secondPassed # firstPassed
  /\ Len(definedFunctions) >= 1

(***************************************************************************)
(* Order of the calls inside one iteration of the scheduler, checked       *)
(* under Spec.                                                             *)
(***************************************************************************)

\* The capture loop of the current iteration is running or has finished
capturing == pc \in {"capture_for", "validated_while", "do_while"}

\* Number of computeCaptures calls made so far by the current iteration
capturedNow == currentFunctionIdx - loopI

\* The calls the capture loop of the current iteration has made are the
\* last capturedNow entries of captureLog: cur-1, cur-2, ... in this order;
\* before them come the calls of the earlier iterations, one for each
\* function below prev; all bodies up to cur have been checked, in order
descendingInRange ==
  capturing =>
    /\ capturedNow \in 0..(currentFunctionIdx - previousFunctionIdx)
    /\ Len(captureLog) = previousFunctionIdx + capturedNow
    /\ \A k \in 1..capturedNow :
         captureLog[previousFunctionIdx + k] = currentFunctionIdx - k
    /\ pc # "capture_for" => loopI = previousFunctionIdx
    /\ bodyLog = [k \in 1..currentFunctionIdx |-> k - 1]

\* A computeCaptures call is made by the capture loop, on the function
\* just below the loop counter, inside the range of the iteration and
\* after the body checks of the whole range; the handling of an external
\* definition computes no captures
captureStepInRange ==
  /\ captureLog' # captureLog =>
       /\ pc = "capture_for"
       /\ captureLog' = Append(captureLog, loopI - 1)
       /\ loopI - 1 >= previousFunctionIdx
       /\ loopI - 1 < currentFunctionIdx
       /\ Len(bodyLog) = currentFunctionIdx
       /\ bodyLog' = bodyLog
       /\ extLog' = extLog
  /\ extLog' # extLog => captureLog' = captureLog

\* C19: within each scheduler iteration computeCaptures is called on the
\* functions of [prev, cur) in strictly descending index order, each
\* exactly once, and only after the body checks of all functions of the
\* range; it is never called on an ExternalDefinitions entry.
C19_CapturesDescendingInRange ==
  []descendingInRange /\ [][captureStepInRange]_vars

\* C19 witness: a later iteration has checked two functions and captured
\* both, the higher index first
C19_Witness ==
  /\ pc = "validated_while"
  /\ previousFunctionIdx >= 1
  /\ currentFunctionIdx - previousFunctionIdx >= 2
  /\ captureLog[Len(captureLog)] = previousFunctionIdx
  /\ captureLog[Len(captureLog) - 1] = previousFunctionIdx + 1

\* The length the running drain loop bounds itself by is a length its list
\* has had, and the cursor has not passed it
cursorsInBounds ==
  /\ currentFunctionIdx <= Len(definedFunctions)
  /\ currentExternalDef <= Len(ExternalDefinitions)
  /\ pc = "external_for" =>
       /\ loopN <= Len(ExternalDefinitions)
       /\ currentExternalDef <= loopN
  /\ pc = "function_for" =>
       /\ loopN <= Len(definedFunctions)
       /\ currentFunctionIdx <= loopN
  /\ (pc = "capture_for" /\ captureLoopRuns) =>
       (loopI - 1) \in 0..(Len(definedFunctions) - 1)

\* Bodies are checked in increasing index order, and a function appended by
\* a body check comes after the function whose check appended it
outerBeforeNested ==
  /\ bodyLog = [k \in 1..Len(bodyLog) |-> k - 1]
  /\ \A f, g \in DOMAIN definedFunctions :
       definedFunctions[g].parent = definedFunctions[f].id =>
         /\ f < g
         /\ occurrences(bodyLog, g - 1) = 1 => occurrences(bodyLog, f - 1) = 1

\* C20: function bodies are checked in increasing index order, a function
\* appended while an enclosing function's body is checked is checked after
\* it, no cursor exceeds the length of its sequence, every indexed access
\* is within bounds, and no appended element is left unprocessed when the
\* loop is left.
C20_GrowthWhileDrainingIsSafe ==
  /\ cursorsInBounds
  /\ outerBeforeNested
  /\ pc = "scheduler_exit" =>
       /\ Len(bodyLog) = Len(definedFunctions)
       /\ Len(extLog) = Len(ExternalDefinitions) - LastCheckedExternalDefinition

\* C20 witness: the function loop is running with a bound smaller than the
\* sequence has become, a nested function appended by the last body check
\* lying beyond the bound
C20_Witness ==
  /\ pc = "function_for"
  /\ currentFunctionIdx = loopN
  /\ loopN < Len(definedFunctions)
  /\ definedFunctions[Len(definedFunctions)].parent # 0

(***************************************************************************)
(* Properties of the external-definition loop and of its cursor across     *)
(* runs, checked under SpecRuns.                                           *)
(***************************************************************************)

\* The kind of the external definition a log entry is about
loggedKind(k) == ExternalDefinitions[extLog[k].index + 1]

\* The helpers expected for each kind of nominal type
expectedHelpers(kind) ==
  IF kind = "struct"
  THEN {"addImplicitConstructors", "addImplicitStructConformances"}
  ELSE IF kind = "class" THEN {"addImplicitDestructor"}
  ELSE IF kind = "enum" THEN {"addImplicitEnumConformances"}
  ELSE {}

\* Every function and every nominal type the loop has visited got the
\* one treatment of its kind, and no entry was visited twice
handledByKind ==
  \A k \in DOMAIN extLog :
    /\ \A j \in DOMAIN extLog : extLog[j].index = extLog[k].index => j = k
    /\ loggedKind(k) = "func" =>
         extLog[k].treatment = Treatment("typeCheckAbstractFunctionBody", {})
    /\ loggedKind(k) \in NominalKinds =>
         extLog[k].treatment =
           Treatment("handleExternalDecl", expectedHelpers(loggedKind(k)))

visits(x) == Cardinality({k \in DOMAIN extLog : extLog[k].index = x})

\* A run has returned, to either entry point
runReturned == pc \in {"scheduler_returned", "done"}

\* The state part of C24: no entry is ever visited twice and none at or
\* past the cursor has been visited; when a run returns, the stored
\* cursor is the length of ExternalDefinitions; and from then on every
\* entry before the stored cursor has been visited once
cursorAccounts ==
  /\ \A x \in 0..(Len(ExternalDefinitions) - 1) : visits(x) <= 1
  /\ pc = "scheduler_returned" =>
       LastCheckedExternalDefinition = Len(ExternalDefinitions)
  /\ runReturned =>
       /\ LastCheckedExternalDefinition <= Len(ExternalDefinitions)
       /\ \A x \in 0..(Len(ExternalDefinitions) - 1) :
            visits(x) = IF x < LastCheckedExternalDefinition THEN 1 ELSE 0

\* The step part of C24: a run starts at the stored cursor, the return
\* stores the cursor the loop ended at, and the stored cursor never
\* decreases
cursorStep ==
  /\ (pc = "scheduler" /\ pc' = "external_for") =>
       currentExternalDef' = LastCheckedExternalDefinition
  /\ (pc = "scheduler_exit" /\ pc' = "scheduler_returned") =>
       LastCheckedExternalDefinition' = currentExternalDef
  /\ LastCheckedExternalDefinition' >= LastCheckedExternalDefinition

\* C24: the external-definition cursor lives in the context across runs:
\* each run starts at LastCheckedExternalDefinition and stores its final
\* cursor back, so the stored value never decreases, equals the length of
\* ExternalDefinitions after every run, and over performTypeChecking and
\* the typeCheckExternalDefinitions calls that follow every external
\* definition is visited exactly once in total.
C24_CursorPersistsAcrossRuns == []cursorAccounts /\ [][cursorStep]_vars

\* C24 witness: a typeCheckExternalDefinitions run has returned after
\* visiting a definition imported since performTypeChecking, which had
\* visited another one
C24_Witness ==
  /\ pc = "scheduler_returned"
  /\ caller = "typeCheckExternalDefinitions"
  /\ LastCheckedExternalDefinition = Len(ExternalDefinitions)
  /\ \E j, k \in DOMAIN extLog :
       /\ extLog[j].by = "performTypeChecking"
       /\ extLog[k].by = "typeCheckExternalDefinitions"
       /\ extLog[j].index < extLog[k].index

=============================================================================
